---- MODULE Spec2Model ----
(***************************************************************************)
(* A model of confreader (src/confreader.h, the plain C variant; the class *)
(* variant src/confreader.hpp is the same code on instance fields).        *)
(*                                                                         *)
(* The file buffer is a sequence of byte values; C index i is element i+1. *)
(* Strings handed out by the parser are offsets into the buffer and read   *)
(* up to the next NUL byte, exactly as the C code's char pointers.         *)
(***************************************************************************)
EXTENDS Integers, Sequences, FiniteSets, TLC

(* ------------------------------ bounds -------------------------------- *)
\* lines per generated multi-line file
MaxLines == 3
\* bytes of the value text of a generated one-parameter file
MaxValLen == 3
\* descriptors the process may hold open (the descriptor limit)
MaxFds == 1
\* lines per generated file of unusual lines
MaxEdgeLines == 2

(* --------------------------- program constants ------------------------ *)
CONFREADER_OK == 0
CONFREADER_ERROR == -1
CONFREADER_EREADFILE == 1
CONFREADER_EPARSINGFILE == 2
CONFREADER_ENOSECT == 3
CONFREADER_ENOPARAM == 4
CONFREADER_EINVVAL == 5
CONFREADER_EBUSY == 6
CONFREADER_ENOMEM == 7

NUL == 0
TAB == 9
LF == 10
CR == 13
SP == 32
HASH == 35
MINUS == 45
DOT == 46
D0 == 48
D1 == 49
D9 == 57
SEMI == 59
EQ == 61
LBR == 91
RBR == 93
\* letters, taken from the literals "yes", "true", "false", "no"
La == 97
Le == 101
Lf == 102
Ll == 108
Ln == 110
Lo == 111
Lr == 114
Ls == 115
Lt == 116
Lu == 117
Ly == 121
\* upper-case forms of the letters used in file and query names
UA == La - 32
US == Ls - 32

\* the null pointer; buffer offsets and table indices are >= 0
NULL == -1
\* an indeterminate value: what a read of never-written malloc memory yields
INDET == NULL - 1
\* the value a query "returns" when the read it makes kills the process
CRASH == NULL - 2

(* ------------------------------ memory -------------------------------- *)
\* a pointer to a heap block: not allocated, or allocated with contents mem
Null == [alloc |-> FALSE, mem |-> <<>>]
Block(m) == [alloc |-> TRUE, mem |-> m]

At(buf, i) == buf[i + 1]
Put(buf, i, c) == [buf EXCEPT ![i + 1] = c]

IsWs(c) == c = SP \/ c = TAB
IsSep(c) == c = EQ \/ c = SP \/ c = TAB
IsComment(c) == c = HASH \/ c = SEMI

\* the offset of the first NUL byte at or after p (the length of buf when
\* there is none)
RECURSIVE StrEnd(_, _)
StrEnd(buf, p) ==
  IF p >= Len(buf) \/ At(buf, p) = NUL THEN p ELSE StrEnd(buf, p + 1)

\* the NUL-terminated string at offset p of buf
CStr(buf, p) == SubSeq(buf, p + 1, StrEnd(buf, p))

(* ------------------------------ inputs -------------------------------- *)
RECURSIVE Join(_)
Join(ls) ==
  IF Len(ls) = 0 THEN <<>>
  ELSE IF Len(ls) = 1 THEN ls[1]
  ELSE ls[1] \o <<LF>> \o Join(Tail(ls))

\* the line texts multi-line files are made of:
\*   [s]   [t (no closing bracket)   a=1   A 0   (blank)   <CR>a (bare CR)
LineKinds ==
  { <<LBR, Ls, RBR>>, <<LBR, Lt>>, <<La, EQ, D1>>, <<UA, SP, D0>>, <<>>,
    <<CR, La>> }

SeqsUpTo(S, n) == UNION { [1..k -> S] : k \in 0..n }

\* the texts after "a=" of one-parameter files: numbers and near-numbers,
\* and values with blanks and comment marks
NumChars == {D1, MINUS, DOT}
TextChars == {D1, SP, HASH, SEMI}
ValueTexts ==
  (SeqsUpTo(NumChars, MaxValLen) \cup SeqsUpTo(TextChars, MaxValLen)) \ {<<>>}
ValueFiles == { <<<<La, EQ>> \o txt>> : txt \in ValueTexts }

\* unusual lines, with two usual ones to stand next to them:
\*   =1 (no key)   <NUL> (one NUL byte)   a=1<CR> (ends in CR LF)   [s]   a=1
EdgeKinds ==
  { <<EQ, D1>>, <<NUL>>, <<La, EQ, D1, CR>>, <<LBR, Ls, RBR>>, <<La, EQ, D1>> }
EdgeFiles == SeqsUpTo(EdgeKinds, MaxEdgeLines)

\* a file is given as its lines; its bytes are the lines joined by LF.
\* Files of no bytes are not among them (ParseEmpty models those).
FileLines ==
  (SeqsUpTo(LineKinds, MaxLines) \cup ValueFiles \cup EdgeFiles)
    \ {<<>>, << <<>> >>}

(* ------------------------- confreaderParseFile ------------------------ *)
\* lines 152-154: the buffer of a file of size bytes plus the synthetic LF
LoadBuf(bytes) == bytes \o <<LF>>

\* lines 157-160: the number of LF bytes of the buffer
RECURSIVE CountLF(_, _)
CountLF(buf, i) ==
  IF i >= Len(buf) THEN 0
  ELSE (IF At(buf, i) = LF THEN 1 ELSE 0) + CountLF(buf, i + 1)

\* lines 176-178 (also 258-260): skip spaces and tabs from i
RECURSIVE SkipWs(_, _)
SkipWs(buf, i) ==
  IF i < Len(buf) /\ IsWs(At(buf, i)) THEN SkipWs(buf, i + 1) ELSE i

\* lines 191-209: the index of the next CR or LF at or after i
RECURSIVE FindEol(_, _)
FindEol(buf, i) ==
  IF i < Len(buf) /\ At(buf, i) # CR /\ At(buf, i) # LF
  THEN FindEol(buf, i + 1) ELSE i

\* a splitter without lines 183-184: no header is counted
NeverSection(c) == FALSE

\* line 183: the first byte of a line opens a section
StartsSection(c) == c = LBR

\* line 187: the first byte of a line makes it a parameter line (pass 1)
CountsAsParam(c) == c # LBR /\ c # HASH /\ c # SEMI /\ c # LF /\ c # CR

\* lines 171-210: the line splitter, one line per step.  st.lines is the
\* list of recorded offsets (lineIdx is its length).
RECURSIVE SplitLines(_)
SplitLines(st) ==
  IF st.i >= Len(st.buf) THEN st
  ELSE
    LET buf == st.buf
        s == SkipWs(buf, st.i)
        c == At(buf, s)
        t == [st EXCEPT !.lines = Append(st.lines, s),
                        !.sectCount = IF StartsSection(c) THEN @ + 1 ELSE @,
                        !.paramCount = IF CountsAsParam(c) THEN @ + 1 ELSE @]
        e == FindEol(buf, s)
    IN IF e >= Len(buf) THEN [t EXCEPT !.i = e + 1]
       ELSE IF At(buf, e) = CR
       THEN IF At(buf, e + 1) # LF
            THEN [t EXCEPT !.err = CONFREADER_EPARSINGFILE,
                           !.errLine = Len(t.lines)]
            ELSE SplitLines([t EXCEPT !.buf = Put(Put(buf, e, NUL), e + 1, NUL),
                                      !.i = e + 2])
       ELSE SplitLines([t EXCEPT !.buf = Put(buf, e, NUL), !.i = e + 1])

Pass1(bytes) ==
  SplitLines([buf |-> LoadBuf(bytes), i |-> 0, lines |-> <<>>,
              sectCount |-> 1, paramCount |-> 0,
              err |-> CONFREADER_OK, errLine |-> 0])

\* lines 244-255: from i, the index of the first ']' or NUL byte
RECURSIVE FindNameEnd(_, _)
FindNameEnd(buf, i) ==
  IF i < Len(buf) /\ At(buf, i) # RBR /\ At(buf, i) # NUL
  THEN FindNameEnd(buf, i + 1) ELSE i

\* lines 280-289: from i, the index of the first NUL, '=', space or tab
RECURSIVE FindKeyEnd(_, _)
FindKeyEnd(buf, i) ==
  IF i < Len(buf) /\ At(buf, i) # NUL /\ ~IsSep(At(buf, i))
  THEN FindKeyEnd(buf, i + 1) ELSE i

\* lines 293-295: skip '=', spaces and tabs from i
RECURSIVE SkipSeps(_, _)
SkipSeps(buf, i) ==
  IF i < Len(buf) /\ IsSep(At(buf, i)) THEN SkipSeps(buf, i + 1) ELSE i

\* lines 306-319: from i, the index of the first NUL, '#' or ';'
RECURSIVE FindValueEnd(_, _)
FindValueEnd(buf, i) ==
  IF i < Len(buf) /\ At(buf, i) # NUL /\ ~IsComment(At(buf, i))
  THEN FindValueEnd(buf, i + 1) ELSE i

\* a linker without the check of line 310: any '#' or ';' ends the value
AnyMarkEnds(buf, i) == TRUE

\* line 310: a comment mark at i ends the value only after a space or tab
CommentSeparated(buf, i) == IsWs(At(buf, i - 1))

\* a linker without the loop of lines 322-324: nothing is trimmed
KeepBlanks(buf, i) == i

\* lines 322-324: from i down, the index of the last byte that is no space
\* or tab (-1 when there is none)
RECURSIVE TrimBack(_, _)
TrimBack(buf, i) ==
  IF i >= 0 /\ IsWs(At(buf, i)) THEN TrimBack(buf, i - 1) ELSE i

\* line 271: the first byte of a line makes it a parameter line (pass 2)
IsParamLine(c) == c # HASH /\ c # SEMI /\ c # NUL

\* line 235: the linker's loop condition
LinkMore(lineIdx, lineCount, paramIdx, paramCount) ==
  lineIdx < lineCount /\ paramIdx < paramCount

ParseError(st) ==
  [st EXCEPT !.err = CONFREADER_EPARSINGFILE, !.errLine = st.lineIdx + 1]

\* lines 238-268: a section header at offset i0
LinkSection(st, i0) ==
  LET sectIdx == st.sectIdx + 1
      row == [name |-> i0 + 1, size |-> 0, params |-> NULL]
      t == [st EXCEPT !.sectIdx = sectIdx,
                      !.sects = [k \in DOMAIN st.sects \cup {sectIdx} |->
                                   IF k = sectIdx THEN row ELSE st.sects[k]]]
      e == FindNameEnd(st.buf, i0 + 1)
  IN IF e < Len(st.buf) /\ At(st.buf, e) = NUL THEN ParseError(t)
     ELSE LET buf == IF e < Len(st.buf) THEN Put(st.buf, e, NUL) ELSE st.buf
              i == SkipWs(buf, IF e < Len(st.buf) THEN e + 1 ELSE e)
              c == At(buf, i)
          IN IF c # NUL /\ ~IsComment(c) THEN ParseError(t)
             ELSE [t EXCEPT !.buf = buf]

\* lines 271-330: a parameter line at offset i0
LinkParam(st, i0) ==
  LET sect == st.sects[st.sectIdx]
      sects1 == IF sect.params = NULL
                THEN [st.sects EXCEPT ![st.sectIdx].params = st.paramIdx]
                ELSE st.sects
      ke == FindKeyEnd(st.buf, i0)
  IN IF ke < Len(st.buf) /\ At(st.buf, ke) = NUL THEN ParseError(st)
     ELSE
      LET buf1 == Put(st.buf, ke, NUL)
          v == SkipSeps(buf1, ke + 1)
          c == At(buf1, v)
      IN IF c = NUL \/ IsComment(c) THEN ParseError(st)
         ELSE
          LET ve == FindValueEnd(buf1, v)
          IN IF ve < Len(buf1) /\ IsComment(At(buf1, ve))
                /\ ~CommentSeparated(buf1, ve)
             THEN ParseError(st)
             ELSE
              LET last == TrimBack(buf1, ve - 1)
                  buf2 == Put(buf1, last + 1, NUL)
              IN [st EXCEPT
                    !.buf = buf2,
                    !.params = Append(st.params, [key |-> i0, value |-> v]),
                    !.sects = [sects1 EXCEPT ![st.sectIdx].size = @ + 1],
                    !.paramIdx = @ + 1]

\* lines 229-331: the linker, one recorded line per step.  st.sects holds
\* the rows written so far (0..sectIdx), st.params the entries written so
\* far (paramIdx is its length).
RECURSIVE LinkLines(_)
LinkLines(st) ==
  IF ~LinkMore(st.lineIdx, st.lineCount, st.paramIdx, st.paramCount) THEN st
  ELSE
    LET i0 == st.lines[st.lineIdx + 1]
        c == At(st.buf, i0)
        t == IF c = LBR THEN LinkSection(st, i0)
             ELSE IF IsParamLine(c) THEN LinkParam(st, i0)
             ELSE st
    IN IF t.err # CONFREADER_OK THEN t
       ELSE LinkLines([t EXCEPT !.lineIdx = @ + 1])

\* lines 229-234: the linker's state before the first line
LinkStart(p1, lineCount) ==
  [buf |-> p1.buf, lines |-> p1.lines, lineCount |-> lineCount,
   paramCount |-> p1.paramCount, lineIdx |-> 0, sectIdx |-> 0,
   paramIdx |-> 0,
   sects |-> [k \in {0} |-> [name |-> NULL, size |-> 0, params |-> NULL]],
   params |-> <<>>, err |-> CONFREADER_OK, errLine |-> 0]

Pass2(p1, lineCount) == LinkLines(LinkStart(p1, lineCount))

\* a row of the section table malloc returned and the linker never wrote
UnwrittenSect == [name |-> INDET, size |-> INDET, params |-> INDET]
\* an entry of the parameter table the linker never wrote
UnwrittenParam == [key |-> INDET, value |-> INDET]

\* the section table as the linker leaves it: sectCount rows, the rows past
\* the last one it opened never written
SectTable(p2, nSects) ==
  [k \in 0..(nSects - 1) |->
     IF k \in DOMAIN p2.sects THEN p2.sects[k] ELSE UnwrittenSect]

\* the parameter table as the linker leaves it: paramCount entries
ParamTable(p2, nParams) ==
  [k \in 0..(nParams - 1) |->
     IF k < Len(p2.params) THEN p2.params[k + 1] ELSE UnwrittenParam]

\* what the two passes make of a non-empty file when no allocation fails
Parsed(bytes) ==
  LET lineCount == CountLF(LoadBuf(bytes), 0)
      p1 == Pass1(bytes)
  IN IF p1.err # CONFREADER_OK
     THEN [err |-> p1.err, errLine |-> p1.errLine, stage |-> 1]
     ELSE LET p2 == Pass2(p1, lineCount)
          IN IF p2.err # CONFREADER_OK
             THEN [err |-> p2.err, errLine |-> p2.errLine, stage |-> 2]
             ELSE [err |-> CONFREADER_OK, errLine |-> 0, stage |-> 3,
                   buf |-> p2.buf,
                   sectCount |-> p1.sectCount,
                   sects |-> SectTable(p2, p1.sectCount),
                   params |-> ParamTable(p2, p1.paramCount)]

(* ------------------------- the parser's accesses ---------------------- *)
\* The indices the two passes use: buf holds the buffer indices read or
\* written, lines, sects and params the indices of confreader_lines,
\* confreaderSects and confreader_params read or written.
NoAccess == [buf |-> {}, lines |-> {}, sects |-> {}, params |-> {}]

Both(a, b) ==
  [buf |-> a.buf \cup b.buf, lines |-> a.lines \cup b.lines,
   sects |-> a.sects \cup b.sects, params |-> a.params \cup b.params]

\* the indices a loop "for(; i<fileBufSize; i++)" reads when it starts at
\* from and stops at to: the test i<fileBufSize comes before each read
Under(buf, from, to) == { k \in from..to : k < Len(buf) }

\* lines 174-210: the accesses of the line splitter from buffer index i on,
\* with lineIdx lines recorded so far
RECURSIVE SplitAccess(_, _, _)
SplitAccess(buf, i, lineIdx) ==
  IF i >= Len(buf) THEN NoAccess
  ELSE
    LET s == SkipWs(buf, i)
        e == FindEol(buf, s)
        isCR == e < Len(buf) /\ At(buf, e) = CR
        \* 176-178 the skip loop; 183, 187 the first byte; 191-209 the scan;
        \* 193-201 the bytes of CR LF
        here == [NoAccess EXCEPT
                   !.buf = Under(buf, i, s) \cup {s} \cup Under(buf, s, e)
                             \cup (IF isCR THEN {e + 1} ELSE {}),
                   !.lines = {lineIdx}]
    IN IF e >= Len(buf) THEN here
       ELSE IF isCR /\ (e + 1 >= Len(buf) \/ At(buf, e + 1) # LF) THEN here
       ELSE Both(here, SplitAccess(buf, IF isCR THEN e + 2 ELSE e + 1,
                                   lineIdx + 1))

\* lines 238-268: the accesses of the linker on a section header at i0
SectionAccess(st, i0) ==
  LET buf == st.buf
      e == FindNameEnd(buf, i0 + 1)
      closed == e < Len(buf) /\ At(buf, e) = RBR
      open == e < Len(buf) /\ At(buf, e) = NUL
      i == IF closed THEN e + 1 ELSE e
      j == SkipWs(buf, i)
  IN [NoAccess EXCEPT
        !.sects = {st.sectIdx + 1},
        !.buf = Under(buf, i0 + 1, e)
                  \cup (IF open THEN {} ELSE Under(buf, i, j) \cup {j})]

\* lines 271-330: the accesses of the linker on a parameter line at i0
ParamAccess(st, i0) ==
  LET buf == st.buf
      ke == FindKeyEnd(buf, i0)
      noKeyEnd == ke < Len(buf) /\ At(buf, ke) = NUL
      v == SkipSeps(buf, ke + 1)
      noValue == v < Len(buf) /\ (At(buf, v) = NUL \/ IsComment(At(buf, v)))
      ve == FindValueEnd(buf, v)
      mark == ve < Len(buf) /\ IsComment(At(buf, ve))
      bare == mark /\ ~CommentSeparated(buf, ve)
      last == TrimBack(buf, ve - 1)
      \* 280-289 the key; 290 its end; 293-296 the separators and the
      \* value's first byte; 306-319 the value, 310 the byte before a mark;
      \* 322-326 the trimming and the value's end
      key == Under(buf, i0, ke)
      seps == {ke} \cup Under(buf, ke + 1, v) \cup {v}
      value == Under(buf, v, ve) \cup (IF mark THEN {ve - 1} ELSE {})
      trim == { k \in last..(ve - 1) : k >= 0 } \cup {last + 1}
  IN [NoAccess EXCEPT
        !.params = {st.paramIdx},
        !.sects = {st.sectIdx},
        !.buf = IF noKeyEnd THEN key
                ELSE IF noValue THEN key \cup seps
                ELSE IF bare THEN key \cup seps \cup value
                ELSE key \cup seps \cup value \cup trim]

\* lines 235-331: the accesses of the linker from state st on
RECURSIVE LinkAccess(_)
LinkAccess(st) ==
  IF ~LinkMore(st.lineIdx, st.lineCount, st.paramIdx, st.paramCount)
  THEN NoAccess
  ELSE
    LET i0 == st.lines[st.lineIdx + 1]
        c == At(st.buf, i0)
        t == IF c = LBR THEN LinkSection(st, i0)
             ELSE IF IsParamLine(c) THEN LinkParam(st, i0)
             ELSE st
        line == [NoAccess EXCEPT !.lines = {st.lineIdx}, !.buf = {i0}]
        here == Both(line, IF c = LBR THEN SectionAccess(st, i0)
                           ELSE IF IsParamLine(c) THEN ParamAccess(st, i0)
                           ELSE NoAccess)
    IN IF t.err # CONFREADER_OK THEN here
       ELSE Both(here, LinkAccess([t EXCEPT !.lineIdx = @ + 1]))

\* lines 152-331: the sizes of the buffer and of the three tables, and the
\* accesses of each pass (pass 2 begins with the writes of row 0, lines
\* 229-232, and makes none when pass 1 failed)
Accesses(bytes) ==
  LET buf == LoadBuf(bytes)
      lineCount == CountLF(buf, 0)
      p1 == Pass1(bytes)
  IN [size |-> Len(buf),
      lineCount |-> lineCount,
      sectCount |-> p1.sectCount,
      paramCount |-> p1.paramCount,
      split |-> p1.err = CONFREADER_OK,
      pass1 |-> SplitAccess(buf, 0, 0),
      pass2 |-> IF p1.err # CONFREADER_OK THEN NoAccess
                ELSE Both([NoAccess EXCEPT !.sects = {0}],
                          LinkAccess(LinkStart(p1, lineCount)))]

(* ------------------------------- state -------------------------------- *)
VARIABLES
  fileBuf,        \* confreader_fileBuf: Null or the block holding the bytes
  lines,          \* confreader_lines: Null or the block of line offsets
  params,         \* confreader_params: Null or the parameter table
  sects,          \* confreaderSects: Null or the section table
  sectCount,      \* confreaderSectCount
  errorNum,       \* confreaderErrorNum
  errorLineNum,   \* confreaderErrorLineNum
  openFds,        \* descriptors opened by parse calls and not closed
  ret,            \* the last call: operation, inputs, returned value
  src             \* the lines of the file the loaded buffer was read from

vars == <<fileBuf, lines, params, sects, sectCount, errorNum, errorLineNum,
          openFds, ret, src>>

\* the absent (NULL) section argument of a query
NoSection == <<NULL>>

\* lines 61-72: the buffer and the tables, which the queries read
Doc ==
  [fileBuf |-> fileBuf, lines |-> lines, params |-> params, sects |-> sects,
   sectCount |-> sectCount]

\* A call as its caller and its environment see it.  For a parse call, env
\* tells what the system did with it: "ok" (the file opened, was read in
\* full, and no allocation failed), "noopen", "nostat", "nomem",
\* "shortread", or "unused" (the call returned before it opened the file);
\* file holds the lines of the file when the call went on to read them.
Call(op, env, file, key, sect, val) ==
  [op |-> op, env |-> env, file |-> file, key |-> key, sect |-> sect,
   val |-> val]

ParseCall(env, file, rc) == Call("parseFile", env, file, <<>>, NoSection, <<rc>>)
QueryCall(op, key, sect, val) == Call(op, "ok", <<>>, key, sect, val)

\* lines 74-82: confreaderInit
ConfreaderInit ==
  [fileBuf |-> Null, lines |-> Null, params |-> Null, sects |-> Null,
   sectCount |-> 0]

\* a confreaderClear without lines 98-101: the buffer is not released
ClearKeepsBuffer(d) ==
  [sectCount |-> 0, sects |-> Null, params |-> Null, lines |-> Null,
   fileBuf |-> d.fileBuf]

\* lines 84-102: confreaderClear on the tables d
ConfreaderClear(d) ==
  [sectCount |-> 0,
   sects |-> IF d.sects.alloc THEN Null ELSE d.sects,
   params |-> IF d.params.alloc THEN Null ELSE d.params,
   lines |-> IF d.lines.alloc THEN Null ELSE d.lines,
   fileBuf |-> IF d.fileBuf.alloc THEN Null ELSE d.fileBuf]

\* lines 138, 153: the tables once the file's bytes are in the buffer
Loaded(bytes) == [ConfreaderInit EXCEPT !.fileBuf = Block(LoadBuf(bytes))]

\* lines 163, 172: the tables while the lines are split
Splitting(bytes) ==
  [Loaded(bytes) EXCEPT !.lines = Block(<<>>), !.sectCount = 1]

\* lines 213-221: the tables while the lines are linked
Linking(bytes) ==
  [Splitting(bytes) EXCEPT !.params = Block(<<>>), !.sects = Block(<<>>)]

\* lines 333-336: the tables a successful parse of a non-empty file leaves
Linked(p) ==
  [fileBuf |-> Block(p.buf), lines |-> Null, params |-> Block(p.params),
   sects |-> Block(p.sects), sectCount |-> p.sectCount]

\* the tables as a parse call leaves them: p is the outcome of the two
\* passes on bytes
AfterParse(bytes, p) ==
  IF p.stage = 1 THEN ConfreaderClear(Splitting(bytes))
  ELSE IF p.stage = 2 THEN ConfreaderClear(Linking(bytes))
  ELSE Linked(p)

\* lines 150-337 for every file of the input set: the file, the error the
\* two passes end with, and the tables the call leaves
ParseOutcomes ==
  { LET p == Parsed(Join(fl))
    IN [file |-> fl, err |-> p.err, errLine |-> p.errLine, stage |-> p.stage,
        doc |-> AfterParse(Join(fl), p)] : fl \in FileLines }

\* some file gets through the line splitter
SomeFileSplits == \E p \in ParseOutcomes : p.stage >= 2

SetDoc(d) ==
  /\ fileBuf' = d.fileBuf
  /\ lines' = d.lines
  /\ params' = d.params
  /\ sects' = d.sects
  /\ sectCount' = d.sectCount

Init ==
  /\ fileBuf = ConfreaderInit.fileBuf
  /\ lines = ConfreaderInit.lines
  /\ params = ConfreaderInit.params
  /\ sects = ConfreaderInit.sects
  /\ sectCount = ConfreaderInit.sectCount
  /\ errorNum = 0
  /\ errorLineNum = 0
  /\ openFds = 0
  /\ ret = Call("init", "ok", <<>>, <<>>, NoSection, <<>>)
  /\ src = <<>>

\* the process runs: no call has read through an indeterminate pointer and
\* died of it
Alive == ret.val # <<CRASH>>

\* a parse call that returns CONFREADER_ERROR and leaves the tables d
ParseFails(d, env, file, err, line, leaked) ==
  /\ Alive
  /\ SetDoc(d)
  /\ errorNum' = err
  /\ errorLineNum' = line
  /\ openFds' = openFds + leaked
  /\ src' = <<>>
  /\ ret' = ParseCall(env, file, CONFREADER_ERROR)

\* a parse call that runs confreaderInit (line 117) before the check of
\* line 112: the call is rejected, and the tables are gone
ParseBusyAfterInit ==
  /\ Alive
  /\ fileBuf.alloc
  /\ SetDoc(ConfreaderInit)
  /\ errorLineNum' = 0
  /\ errorNum' = CONFREADER_EBUSY
  /\ src' = <<>>
  /\ ret' = ParseCall("unused", <<>>, CONFREADER_ERROR)
  /\ UNCHANGED openFds

\* lines 110-115: the document already holds a buffer
ParseBusy ==
  /\ Alive
  /\ fileBuf.alloc
  /\ errorLineNum' = 0
  /\ errorNum' = CONFREADER_EBUSY
  /\ ret' = ParseCall("unused", <<>>, CONFREADER_ERROR)
  /\ UNCHANGED <<fileBuf, lines, params, sects, sectCount, openFds, src>>

\* lines 120-124: open fails (no such file, or no descriptor left)
ParseOpenFails ==
  /\ ~fileBuf.alloc
  /\ ParseFails(ConfreaderInit, "noopen", <<>>, CONFREADER_EREADFILE, 0, 0)

\* lines 126-129: fstat fails; the descriptor stays open
ParseStatFails ==
  /\ ~fileBuf.alloc
  /\ openFds < MaxFds
  /\ ParseFails(ConfreaderInit, "nostat", <<>>, CONFREADER_EREADFILE, 0, 1)

\* an empty-file branch that takes the file of no bytes for unreadable
ParseEmptyFails ==
  /\ ~fileBuf.alloc
  /\ openFds < MaxFds
  /\ ParseFails(ConfreaderInit, "ok", <<>>, CONFREADER_EREADFILE, 0, 0)

\* lines 131-136: the file is empty
ParseEmpty ==
  /\ Alive
  /\ ~fileBuf.alloc
  /\ openFds < MaxFds
  /\ SetDoc(ConfreaderInit)
  /\ errorNum' = CONFREADER_OK
  /\ errorLineNum' = 0
  /\ src' = <<>>
  /\ ret' = ParseCall("ok", <<>>, CONFREADER_OK)
  /\ UNCHANGED openFds

\* lines 138-142: the buffer cannot be allocated; the descriptor stays open
ParseNoBuffer ==
  /\ ~fileBuf.alloc
  /\ openFds < MaxFds
  /\ ParseFails(ConfreaderInit, "nomem", <<>>, CONFREADER_ENOMEM, 0, 1)

\* lines 144-149: the read is short; the buffer is freed, the descriptor
\* stays open
ParseShortRead ==
  /\ ~fileBuf.alloc
  /\ openFds < MaxFds
  /\ ParseFails([Loaded(<<>>) EXCEPT !.fileBuf = Null], "shortread", <<>>,
                CONFREADER_EREADFILE, 0, 1)

\* lines 163-168: the line-offset list cannot be allocated
ParseNoLines ==
  /\ ~fileBuf.alloc
  /\ openFds < MaxFds
  /\ ParseFails(ConfreaderClear(Loaded(<<>>)), "nomem", <<>>,
                CONFREADER_ENOMEM, 0, 0)

\* lines 213-226: the lines were split, and the parameter table or the
\* section table cannot be allocated (malloc(0), for a file without
\* parameter lines, may return NULL as well)
ParseNoTables ==
  /\ ~fileBuf.alloc
  /\ openFds < MaxFds
  /\ SomeFileSplits
  /\ ParseFails(ConfreaderClear(Splitting(<<>>)), "nomem", <<>>,
                CONFREADER_ENOMEM, 0, 0)

\* lines 150-337: the file is read and closed, then split and linked
ParseContent ==
  /\ Alive
  /\ ~fileBuf.alloc
  /\ openFds < MaxFds
  /\ \E p \in ParseOutcomes :
       IF p.stage < 3
       THEN ParseFails(p.doc, "ok", p.file, p.err, p.errLine, 0)
       ELSE /\ SetDoc(p.doc)
            /\ errorNum' = CONFREADER_OK
            /\ errorLineNum' = 0
            /\ src' = p.file
            /\ ret' = ParseCall("ok", p.file, CONFREADER_OK)
            /\ UNCHANGED openFds

\* lines 104-337
ParseFile ==
  \/ ParseBusy
  \/ ParseOpenFails
  \/ ParseStatFails
  \/ ParseEmpty
  \/ ParseNoBuffer
  \/ ParseShortRead
  \/ ParseNoLines
  \/ ParseNoTables
  \/ ParseContent

\* lines 84-102: the caller releases the document
Clear ==
  /\ Alive
  /\ SetDoc(ConfreaderClear(Doc))
  /\ src' = <<>>
  /\ ret' = Call("clear", "ok", <<>>, <<>>, NoSection, <<>>)
  /\ UNCHANGED <<errorNum, errorLineNum, openFds>>

(* ------------------------------ queries ------------------------------- *)
\* the names and keys callers ask for, and the defaults they pass
Keys == {<<UA>>, <<Lt>>}
Sections == {NoSection, <<US>>}
SectionNames == {<<US>>, <<Lt>>}
TypedKeys == {<<UA>>}
DefaultInt == 0 - 7
DefaultDouble == <<0, 7, 1>>
DefaultChar == Ln
\* the caller's default string, a pointer outside the buffer
DefaultString == NULL - 3

\* tolower of the C locale
ToLower(c) == IF c >= 65 /\ c <= 90 THEN c + 32 ELSE c

\* strcasecmp(a, b) == 0
EqIgnoreCase(a, b) ==
  Len(a) = Len(b) /\ \A i \in 1..Len(a) : ToLower(a[i]) = ToLower(b[i])

\* In the operators below d holds the buffer and the tables a query reads.

\* the string a pointer into the buffer denotes
StrIn(d, p) == CStr(d.fileBuf.mem, p)

\* lines 344-349 and 353-358: the value of the first entry, from the j-th,
\* of a written section row whose key matches; NULL when there is none
RECURSIVE FindInRow(_, _, _, _)
FindInRow(d, key, row, j) ==
  IF j >= row.size THEN NULL
  ELSE LET prm == d.params.mem[row.params + j]
       IN IF EqIgnoreCase(key, StrIn(d, prm.key)) THEN prm.value
          ELSE FindInRow(d, key, row, j + 1)

\* lines 351-361: the scan of the named rows from row i.  A row the linker
\* never wrote has an indeterminate name: strcasecmp on it may fault
\* (CRASH), may differ (the scan goes on), or may match, and then the row's
\* indeterminate size and params are read: nothing found (NULL), a fault,
\* or an indeterminate value pointer (INDET).
RECURSIVE FindInSects(_, _, _, _)
FindInSects(d, key, section, i) ==
  IF i >= d.sectCount THEN {NULL}
  ELSE LET row == d.sects.mem[i]
       IN IF row.name = INDET
          THEN {CRASH, NULL, INDET} \cup FindInSects(d, key, section, i + 1)
          ELSE IF EqIgnoreCase(section, StrIn(d, row.name))
          THEN {FindInRow(d, key, row, 0)}
          ELSE FindInSects(d, key, section, i + 1)

\* lines 339-366: the pointers confreaderFind can return
FindIn(d, key, section) ==
  IF ~d.fileBuf.alloc THEN {NULL}
  ELSE IF section = NoSection THEN {FindInRow(d, key, d.sects.mem[0], 0)}
  ELSE FindInSects(d, key, section, 1)

\* lines 346, 355, 364: the error number confreaderFind leaves
FindError(r) ==
  IF r = CRASH THEN errorNum
  ELSE IF r = NULL THEN CONFREADER_ENOPARAM
  ELSE CONFREADER_OK

\* lines 368-378: what confreaderHasSection can return, scanning from row i
RECURSIVE HasSectionIn(_, _, _)
HasSectionIn(d, section, i) ==
  IF i >= d.sectCount THEN {0}
  ELSE LET row == d.sects.mem[i]
       IN IF row.name = INDET
          THEN {CRASH, 1} \cup HasSectionIn(d, section, i + 1)
          ELSE IF EqIgnoreCase(section, StrIn(d, row.name)) THEN {1}
          ELSE HasSectionIn(d, section, i + 1)

\* the same on the current buffer and tables
Str(p) == StrIn(Doc, p)
FindOutcomes(key, section) == FindIn(Doc, key, section)
HasSectionFrom(section, i) == HasSectionIn(Doc, section, i)

IsDigit(c) == c >= D0 /\ c <= D9

\* the number a run of digits denotes
RECURSIVE Num(_)
Num(ds) ==
  IF Len(ds) = 0 THEN 0
  ELSE 10 * Num(SubSeq(ds, 1, Len(ds) - 1)) + (ds[Len(ds)] - D0)

\* the longest run of digits s starts with
RECURSIVE Digits(_)
Digits(str) ==
  IF Len(str) > 0 /\ IsDigit(str[1]) THEN <<str[1]>> \o Digits(Tail(str))
  ELSE <<>>

\* lines 411-420: the check confreaderGetInt makes before converting
IntSyntaxOk(str) ==
  /\ Len(str) > 0
  /\ IsDigit(str[1]) \/ str[1] = MINUS
  /\ \A k \in 2..Len(str) : IsDigit(str[k])

\* line 422: strtol(val, NULL, 10) of a string without leading blanks: an
\* optional sign, then the digits it starts with; 0 when there are none
\* (the values of the input set are far from the range of long)
StrToL(str) ==
  LET neg == Len(str) > 0 /\ str[1] = MINUS
      body == IF Len(str) > 0 /\ (str[1] = MINUS \/ str[1] = 43)
              THEN Tail(str) ELSE str
      n == Num(Digits(body))
  IN IF neg THEN 0 - n ELSE n

\* lines 433-442: the check confreaderGetDouble makes before converting
DoubleSyntaxOk(str) ==
  /\ Len(str) > 0
  /\ IsDigit(str[1]) \/ str[1] = MINUS
  /\ \A k \in 2..Len(str) : IsDigit(str[k]) \/ str[k] = DOT

\* a decimal <<negative, mantissa, scale>> (mantissa / 10^scale) without
\* trailing zeros in its fraction
RECURSIVE Decimal(_, _, _)
Decimal(neg, mant, scale) ==
  IF scale > 0 /\ mant % 10 = 0 THEN Decimal(neg, mant \div 10, scale - 1)
  ELSE <<neg, mant, scale>>

\* line 444: strtod(val, NULL) of a string of digits, '.' and a leading
\* sign: the longest prefix that is a decimal number (digits, at most one
\* '.', more digits, at least one digit in all); 0 when there is none
StrToD(str) ==
  LET neg == IF Len(str) > 0 /\ str[1] = MINUS THEN 1 ELSE 0
      body == IF Len(str) > 0 /\ (str[1] = MINUS \/ str[1] = 43)
              THEN Tail(str) ELSE str
      ip == Digits(body)
      rest == SubSeq(body, Len(ip) + 1, Len(body))
      fp == IF Len(rest) > 0 /\ rest[1] = DOT THEN Digits(Tail(rest)) ELSE <<>>
  IN IF Len(ip) + Len(fp) = 0 THEN <<0, 0, 0>>
     ELSE Decimal(neg, Num(ip \o fp), Len(fp))

\* lines 455 and 458: the words confreaderGetBool takes for true and false
IsTrueWord(str) ==
  \/ EqIgnoreCase(str, <<Ly, Le, Ls>>)
  \/ EqIgnoreCase(str, <<Lt, Lr, Lu, Le>>)
  \/ str = <<D1>>
IsFalseWord(str) ==
  \/ EqIgnoreCase(str, <<Ln, Lo>>)
  \/ EqIgnoreCase(str, <<Lf, La, Ll, Ls, Le>>)
  \/ str = <<D0>>

\* a typed getter on the pointer r confreaderFind returned: [val, err].
\* dflt is the caller's default, good tells whether the string at r passes
\* the getter's check, value is what the getter makes of it, and rejects
\* tells whether the getter has a check at all.  Reading through an
\* indeterminate pointer faults, or yields an indeterminate string: one
\* the getter converts or, when it has a check, one the check rejects.
Typed(r, dflt, rejects, good, value) ==
  IF r = CRASH THEN {[val |-> <<CRASH>>, err |-> errorNum]}
  ELSE IF r = NULL THEN {[val |-> dflt, err |-> CONFREADER_ENOPARAM]}
  ELSE IF r = INDET
  THEN {[val |-> <<CRASH>>, err |-> errorNum],
        [val |-> <<INDET>>, err |-> CONFREADER_OK]}
       \cup (IF rejects
             THEN {[val |-> dflt, err |-> CONFREADER_EINVVAL]} ELSE {})
  ELSE IF good THEN {[val |-> value, err |-> CONFREADER_OK]}
  ELSE {[val |-> dflt, err |-> CONFREADER_EINVVAL]}

\* lines 455-463: the check confreaderGetBool makes
BoolSyntaxOk(str) == IsTrueWord(str) \/ IsFalseWord(str)
\* line 391: val[0]
FirstByte(str) == IF Len(str) = 0 THEN NUL ELSE str[1]

\* what each getter can return, with the error number it leaves, when the
\* confreaderFind call it makes can return the pointers of found: [val, err]
HasIn(d, found) ==
  { [val |-> IF r = CRASH THEN <<CRASH>> ELSE IF r = NULL THEN <<0>> ELSE <<1>>,
     err |-> FindError(r)] : r \in found }
GetCharIn(d, found) ==
  UNION { Typed(r, <<DefaultChar>>, FALSE, TRUE, <<FirstByte(StrIn(d, r))>>) :
            r \in found }
GetStringIn(d, found) ==
  { [val |-> IF r = NULL THEN <<DefaultString>> ELSE <<r>>,
     err |-> FindError(r)] : r \in found }
GetIntIn(d, found) ==
  UNION { Typed(r, <<DefaultInt>>, TRUE, IntSyntaxOk(StrIn(d, r)),
                <<StrToL(StrIn(d, r))>>) : r \in found }
GetDoubleIn(d, found) ==
  UNION { Typed(r, DefaultDouble, TRUE, DoubleSyntaxOk(StrIn(d, r)),
                StrToD(StrIn(d, r))) : r \in found }
GetBoolIn(d, found) ==
  UNION { Typed(r, <<DefaultInt>>, TRUE, BoolSyntaxOk(StrIn(d, r)),
                IF IsTrueWord(StrIn(d, r)) THEN <<1>> ELSE <<0>>) :
            r \in found }

\* the same on the current buffer and tables
HasOutcomes(found) == HasIn(Doc, found)
GetCharOutcomes(found) == GetCharIn(Doc, found)
GetStringOutcomes(found) == GetStringIn(Doc, found)
GetIntOutcomes(found) == GetIntIn(Doc, found)
GetDoubleOutcomes(found) == GetDoubleIn(Doc, found)
GetBoolOutcomes(found) == GetBoolIn(Doc, found)

\* a query leaves the document as it is
Query(op, key, section, val, err) ==
  /\ Alive
  /\ ret' = QueryCall(op, key, section, val)
  /\ errorNum' = err
  /\ UNCHANGED <<fileBuf, lines, params, sects, sectCount, errorLineNum,
                 openFds, src>>

\* lines 339-366
Find ==
  \E key \in Keys, section \in Sections :
    \E r \in FindOutcomes(key, section) :
      Query("find", key, section, <<r>>, FindError(r))

\* lines 368-378
HasSection ==
  \E section \in SectionNames :
    \E r \in HasSectionFrom(section, 1) :
      Query("hasSection", <<>>, section, <<r>>,
            IF r = 0 THEN CONFREADER_ENOSECT ELSE errorNum)

\* lines 380-385
Has ==
  \E key \in TypedKeys, section \in Sections :
    \E o \in HasOutcomes(FindOutcomes(key, section)) :
      Query("has", key, section, o.val, o.err)

\* lines 387-394
GetChar ==
  \E key \in TypedKeys, section \in Sections :
    \E o \in GetCharOutcomes(FindOutcomes(key, section)) :
      Query("getChar", key, section, o.val, o.err)

\* lines 396-403
GetString ==
  \E key \in TypedKeys, section \in Sections :
    \E o \in GetStringOutcomes(FindOutcomes(key, section)) :
      Query("getString", key, section, o.val, o.err)

\* lines 405-425
GetInt ==
  \E key \in TypedKeys, section \in Sections :
    \E o \in GetIntOutcomes(FindOutcomes(key, section)) :
      Query("getInt", key, section, o.val, o.err)

\* lines 427-447
GetDouble ==
  \E key \in TypedKeys, section \in Sections :
    \E o \in GetDoubleOutcomes(FindOutcomes(key, section)) :
      Query("getDouble", key, section, o.val, o.err)

\* lines 449-466
GetBool ==
  \E key \in TypedKeys, section \in Sections :
    \E o \in GetBoolOutcomes(FindOutcomes(key, section)) :
      Query("getBool", key, section, o.val, o.err)

Next ==
  \/ ParseFile
  \/ Clear
  \/ Find
  \/ HasSection
  \/ Has
  \/ GetChar
  \/ GetString
  \/ GetInt
  \/ GetDouble
  \/ GetBool

Spec == Init /\ [][Next]_vars

(* ------------------- the file format, as specified -------------------- *)
\* The definitions of this section read a file as the specification's
\* grammar reads it, line by line, without the parser's buffer and tables.

\* a line without its leading spaces and tabs
RECURSIVE Strip(_)
Strip(l) ==
  IF Len(l) > 0 /\ l[1] \in {SP, TAB} THEN Strip(Tail(l)) ELSE l

\* a text without its trailing spaces and tabs
RECURSIVE TrimRight(_)
TrimRight(t) ==
  IF Len(t) > 0 /\ t[Len(t)] \in {SP, TAB}
  THEN TrimRight(SubSeq(t, 1, Len(t) - 1)) ELSE t

\* the position of the first byte of t that is in S; Len(t) + 1 when none is
FirstIn(t, S) ==
  IF \E k \in 1..Len(t) : t[k] \in S
  THEN CHOOSE k \in 1..Len(t) :
         t[k] \in S /\ \A j \in 1..(k - 1) : t[j] \notin S
  ELSE Len(t) + 1

From(t, k) == SubSeq(t, k, Len(t))

SpecBlank(l) == Strip(l) = <<>>
SpecComment(l) == ~SpecBlank(l) /\ Strip(l)[1] \in {HASH, SEMI}
SpecHeaderStart(l) == ~SpecBlank(l) /\ Strip(l)[1] = LBR

\* '[' with no ']' before the line end
SpecOpenHeader(l) ==
  SpecHeaderStart(l) /\ FirstIn(Strip(l), {RBR}) > Len(Strip(l))

\* section := '[' name ']' ws* comment?
SpecHeader(l) ==
  /\ SpecHeaderStart(l)
  /\ ~SpecOpenHeader(l)
  /\ LET rest == Strip(From(Strip(l), FirstIn(Strip(l), {RBR}) + 1))
     IN rest = <<>> \/ rest[1] \in {HASH, SEMI}

SpecHeaderName(l) == SubSeq(Strip(l), 2, FirstIn(Strip(l), {RBR}) - 1)

\* key := any-non-ws-non-sep+
SpecKey(l) == SubSeq(Strip(l), 1, FirstIn(Strip(l), {EQ, SP, TAB}) - 1)

\* what follows the key and the separators after it
RECURSIVE StripSeps(_)
StripSeps(t) ==
  IF Len(t) > 0 /\ t[1] \in {EQ, SP, TAB} THEN StripSeps(Tail(t)) ELSE t
SpecAfterSeps(l) == StripSeps(From(Strip(l), Len(SpecKey(l)) + 1))

\* the positions of the '#' and ';' of t, and those among them that follow
\* a space or a tab
Marks(t) == { k \in 1..Len(t) : t[k] \in {HASH, SEMI} }
SpacedMarks(t) == { k \in Marks(t) : k > 1 /\ t[k - 1] \in {SP, TAB} }
Least(S) == CHOOSE k \in S : \A j \in S : k <= j

\* param := key sep+ value (ws+ comment)?
SpecParam(l) ==
  /\ ~SpecBlank(l) /\ ~SpecComment(l) /\ ~SpecHeaderStart(l)
  /\ CR \notin { l[k] : k \in 1..Len(l) }
  /\ Len(SpecKey(l)) > 0
  /\ Len(SpecKey(l)) < Len(Strip(l))
  /\ SpecAfterSeps(l) # <<>>
  /\ SpecAfterSeps(l)[1] \notin {HASH, SEMI}

\* the value when only a '#' or ';' that follows a space or tab starts the
\* comment: the text up to the first such mark, trimmed
SpecValue(l) ==
  LET t == SpecAfterSeps(l)
  IN TrimRight(SubSeq(t, 1,
       (IF SpacedMarks(t) = {} THEN Len(t) + 1 ELSE Least(SpacedMarks(t))) - 1))

\* a parameter line whose value has no '#' or ';' not preceded by a blank:
\* every reading of the format gives it the same value
SpecPlainParam(l) ==
  SpecParam(l) /\ Marks(SpecAfterSeps(l)) = SpacedMarks(SpecAfterSeps(l))

\* a line of the grammar
SpecWellFormed(l) ==
  SpecBlank(l) \/ SpecComment(l) \/ SpecHeader(l) \/ SpecPlainParam(l)

AllWellFormed(f) == \A n \in 1..Len(f) : SpecWellFormed(f[n])

\* the 1-based numbers of the header lines of f, in order
HeaderLines(f) == { n \in 1..Len(f) : SpecHeader(f[n]) }

\* the number of the header line that opens the section line n belongs to;
\* 0 for the lines before the first header
SectionOf(f, n) ==
  IF \E h \in HeaderLines(f) : h < n
  THEN CHOOSE h \in HeaderLines(f) :
         h < n /\ \A g \in HeaderLines(f) : g < n => g <= h
  ELSE 0

\* the header lines whose name is the given one ignoring case
Named(f, section) ==
  { h \in HeaderLines(f) : EqIgnoreCase(section, SpecHeaderName(f[h])) }

\* the section a lookup with this section argument searches: 0 without a
\* section, the first header of that name, or -1 when there is none
Searched(f, section) ==
  IF section = NoSection THEN 0
  ELSE IF Named(f, section) = {} THEN 0 - 1
  ELSE Least(Named(f, section))

\* the parameter lines of f a lookup of key in section can return
Matches(f, key, section) ==
  { n \in 1..Len(f) :
      /\ SpecParam(f[n])
      /\ SectionOf(f, n) = Searched(f, section)
      /\ EqIgnoreCase(key, SpecKey(f[n])) }

(* ------------------------------ C1 ------------------------------------ *)
\* the lines of f that are no line of the grammar
Malformed(f) == { n \in 1..Len(f) : ~SpecWellFormed(f[n]) }

\* C1: when the only malformed line of a file is a section header with no
\* closing ']' before its line end, parse returns an error, the error kind
\* is ParseFailure and the reported line number is the 1-based number of
\* that line, wherever in the file the header stands.
C1_OpenHeaderReported ==
  (/\ ret.op = "parseFile"
   /\ ret.env = "ok"
   /\ Cardinality(Malformed(ret.file)) = 1
   /\ \A n \in Malformed(ret.file) : SpecOpenHeader(ret.file[n]))
  => /\ ret.val = <<CONFREADER_ERROR>>
     /\ errorNum = CONFREADER_EPARSINGFILE
     /\ errorLineNum \in Malformed(ret.file)

(* ------------------------------ C2 ------------------------------------ *)
\* C2: after a successful parse (here: of a file all of whose lines are
\* well formed) every [name] header line is a recorded section with its
\* name set, headers without parameters and headers after the last
\* parameter line included, and hasSection(n) returns true exactly when
\* some header line's name equals n ignoring case.
C2_EveryHeaderRecorded ==
  (fileBuf.alloc /\ AllWellFormed(src))
  => /\ sectCount = 1 + Cardinality(HeaderLines(src))
     /\ \A h \in HeaderLines(src) :
          LET row == sects.mem[Cardinality({g \in HeaderLines(src) : g <= h})]
          IN row.name >= 0 /\ Str(row.name) = SpecHeaderName(src[h])
     /\ \A section \in SectionNames :
          HasSectionFrom(section, 1)
            = {IF Named(src, section) # {} THEN 1 ELSE 0}

(* ------------------------------ C3 ------------------------------------ *)
\* the values a query can return, whatever error number it leaves
Values(outcomes) == { o.val : o \in outcomes }

\* what the queries of the input set can return on the buffer and tables d
AnswersIn(d) ==
  [find |-> [key \in Keys, section \in Sections |-> FindIn(d, key, section)],
   hasSection |-> [section \in SectionNames |-> HasSectionIn(d, section, 1)],
   has |-> [key \in TypedKeys, section \in Sections |->
              Values(HasIn(d, FindIn(d, key, section)))],
   getChar |-> [key \in TypedKeys, section \in Sections |->
                  Values(GetCharIn(d, FindIn(d, key, section)))],
   getString |-> [key \in TypedKeys, section \in Sections |->
                    Values(GetStringIn(d, FindIn(d, key, section)))],
   getInt |-> [key \in TypedKeys, section \in Sections |->
                 Values(GetIntIn(d, FindIn(d, key, section)))],
   getDouble |-> [key \in TypedKeys, section \in Sections |->
                    Values(GetDoubleIn(d, FindIn(d, key, section)))],
   getBool |-> [key \in TypedKeys, section \in Sections |->
                  Values(GetBoolIn(d, FindIn(d, key, section)))]]

\* C3: a parse call on a document that holds parsed data returns an error
\* of kind Busy and leaves the buffer, the section table, the parameter
\* table and the section count as they were, so every query has the same
\* results after the call as before it.
C3_BusyLeavesData ==
  [][(fileBuf.alloc /\ ret'.op = "parseFile")
     => /\ ret'.val = <<CONFREADER_ERROR>>
        /\ errorNum' = CONFREADER_EBUSY
        /\ fileBuf' = fileBuf
        /\ sects' = sects
        /\ params' = params
        /\ sectCount' = sectCount
        /\ \A before \in {Doc}, after \in {Doc'} :
             AnswersIn(after) = AnswersIn(before)]_vars

\* a parse call was rejected on a document with a named section and a
\* parameter in it
C3_Witness ==
  /\ ret.op = "parseFile"
  /\ errorNum = CONFREADER_EBUSY
  /\ fileBuf.alloc
  /\ sectCount > 1
  /\ \E key \in Keys, section \in Sections \ {NoSection} :
       \E r \in FindOutcomes(key, section) : r >= 0

(* ------------------------------ C4 ------------------------------------ *)
\* C4: after a parse call that fails with ReadFailure, OutOfMemory or
\* ParseFailure the document is not loaded: buffer, line-offset list,
\* section table and parameter table are null and the section count is 0,
\* so the next parse call is not rejected with Busy, and find and
\* hasSection find nothing.
C4_FailedParseNotLoaded ==
  (/\ ret.op = "parseFile"
   /\ ret.val = <<CONFREADER_ERROR>>
   /\ errorNum \in {CONFREADER_EREADFILE, CONFREADER_ENOMEM,
                    CONFREADER_EPARSINGFILE})
  => /\ fileBuf = Null /\ lines = Null /\ sects = Null /\ params = Null
     /\ sectCount = 0
     /\ ~ENABLED ParseBusy
     /\ \A key \in Keys, section \in Sections :
          FindOutcomes(key, section) = {NULL}
     /\ \A section \in SectionNames : HasSectionFrom(section, 1) = {0}

\* the linker failed on the second line, after it had linked the first
C4_Witness ==
  /\ ret.op = "parseFile"
  /\ ret.val = <<CONFREADER_ERROR>>
  /\ errorNum = CONFREADER_EPARSINGFILE
  /\ errorLineNum = 2
  /\ SpecParam(ret.file[1])
  /\ fileBuf = Null

(* ------------------------------ C5 ------------------------------------ *)
\* the call parsed a file of one parameter line
ParsedOneParam ==
  /\ ret.op = "parseFile"
  /\ ret.env = "ok"
  /\ Len(ret.file) = 1
  /\ SpecParam(ret.file[1])

\* the parameter of the one-line file just parsed is found with value text
FoundAs(text) ==
  /\ ret.val = <<CONFREADER_OK>>
  /\ \A r \in FindOutcomes(SpecKey(ret.file[1]), NoSection) :
       r >= 0 /\ Str(r) = text

\* C5 as stated: a '#' or ';' of a value that does not follow a space or
\* tab starts no comment and is part of the value find returns; only a '#'
\* or ';' that follows a space or tab ends the value.
C5_BareMarkKept ==
  ParsedOneParam => FoundAs(SpecValue(ret.file[1]))

\* the first '#' or ';' after the value's start does not follow a blank
BareMarkFirst(t) == Marks(t) # {} /\ Least(Marks(t)) \notin SpacedMarks(t)

\* C5, amended: the first '#' or ';' after the start of a value ends the
\* value when it follows a space or tab; when it does not, the parse fails
\* with ParseFailure at that line.  A value find returns holds no '#' and
\* no ';'.
C5_BareMarkFails ==
  ParsedOneParam =>
    LET t == SpecAfterSeps(ret.file[1])
    IN IF BareMarkFirst(t)
       THEN /\ ret.val = <<CONFREADER_ERROR>>
            /\ errorNum = CONFREADER_EPARSINGFILE
            /\ errorLineNum = 1
       ELSE /\ FoundAs(TrimRight(SubSeq(t, 1, FirstIn(t, {HASH, SEMI}) - 1)))
            /\ \A r \in FindOutcomes(SpecKey(ret.file[1]), NoSection) :
                 Marks(Str(r)) = {}

\* a one-line file whose value holds a '#' or ';' right after a digit was
\* parsed, and the parse failed for it
C5_Witness ==
  /\ ParsedOneParam
  /\ BareMarkFirst(SpecAfterSeps(ret.file[1]))
  /\ errorNum = CONFREADER_EPARSINGFILE
  /\ errorLineNum = 1

(* ------------------------------ C6 ------------------------------------ *)
Count(v, c) == Cardinality({ k \in 1..Len(v) : v[k] = c })
AllDigits(v) == \A k \in 1..Len(v) : v[k] \in D0..D9

\* an optional '-', digits, and optionally a '.' and more digits
SpecDecimal(v) ==
  LET body == IF Len(v) > 0 /\ v[1] = MINUS THEN Tail(v) ELSE v
      dot == FirstIn(body, {DOT})
      int == SubSeq(body, 1, dot - 1)
      frac == From(body, dot + 1)
  IN /\ Len(int) > 0 /\ AllDigits(int)
     /\ dot > Len(body) \/ (Len(frac) > 0 /\ AllDigits(frac))

\* C6: getDouble on a found value with more than one '.' records
\* InvalidValue and returns the caller's default; a found value that is a
\* well-formed decimal number is converted and returned.
C6_TwoDotsInvalid ==
  (ret.op = "getDouble" /\ fileBuf.alloc) =>
    \A r \in FindOutcomes(ret.key, ret.sect) :
      r >= 0 =>
        /\ Count(Str(r), DOT) > 1 =>
             (ret.val = DefaultDouble /\ errorNum = CONFREADER_EINVVAL)
        /\ SpecDecimal(Str(r)) =>
             (ret.val = StrToD(Str(r)) /\ errorNum = CONFREADER_OK)

(* ------------------------------ C7 ------------------------------------ *)
\* -?[0-9]+
SpecInt(v) ==
  LET body == IF Len(v) > 0 /\ v[1] = MINUS THEN Tail(v) ELSE v
  IN Len(body) > 0 /\ AllDigits(body)

RECURSIVE Base10(_)
Base10(ds) ==
  IF ds = <<>> THEN 0
  ELSE 10 * Base10(SubSeq(ds, 1, Len(ds) - 1)) + (ds[Len(ds)] - D0)

SpecIntValue(v) ==
  IF v[1] = MINUS THEN 0 - Base10(Tail(v)) ELSE Base10(v)

\* C7: getInt returns the base-10 conversion of a found value exactly when
\* the whole value matches -?[0-9]+; for every other found value, the lone
\* "-" included, it records InvalidValue and returns the caller's default.
C7_IntIffSyntax ==
  (ret.op = "getInt" /\ fileBuf.alloc) =>
    \A r \in FindOutcomes(ret.key, ret.sect) :
      r >= 0 =>
        IF SpecInt(Str(r))
        THEN ret.val = <<SpecIntValue(Str(r))>> /\ errorNum = CONFREADER_OK
        ELSE ret.val = <<DefaultInt>> /\ errorNum = CONFREADER_EINVVAL

(* ------------------------------ C8 ------------------------------------ *)
\* the last call was a successful parse of a file of no bytes
ParsedEmptyFile ==
  /\ ret.op = "parseFile"
  /\ ret.env = "ok"
  /\ ret.file = <<>>
  /\ ret.val = <<CONFREADER_OK>>

\* C8: a parse call that directly follows a successful parse of a
\* zero-length file, with no release between them, is rejected with Busy.
C8_EmptyCountsAsLoaded ==
  [][(ParsedEmptyFile /\ ret'.op = "parseFile")
     => (ret'.val = <<CONFREADER_ERROR>> /\ errorNum' = CONFREADER_EBUSY)]_vars

(* ------------------------------ C9 ------------------------------------ *)
\* C9: find(key, section) returns the value of the first parameter whose
\* key equals key ignoring case inside the first section whose name equals
\* section ignoring case, and nothing otherwise; without a section it
\* searches only the parameters before the first header.  (Stated for the
\* files all of whose lines are well formed.)
C9_FindFirstMatch ==
  (fileBuf.alloc /\ AllWellFormed(src)) =>
    \A key \in Keys, section \in Sections :
      \A r \in FindOutcomes(key, section) :
        IF Matches(src, key, section) = {} THEN r = NULL
        ELSE /\ r >= 0
             /\ Str(r) = SpecValue(src[Least(Matches(src, key, section))])

(* ------------------------------ C10 ----------------------------------- *)
\* lines 371-372: the rows of the section table confreaderHasSection reads
HasSectionReads == 1..(sectCount - 1)

\* lines 342-353: the rows of the section table confreaderFind may read
FindReads(section) ==
  IF ~fileBuf.alloc THEN {}
  ELSE IF section = NoSection THEN {0}
  ELSE 1..(sectCount - 1)

\* the one outcome of a getter that found nothing
NotFound(dflt) == {[val |-> dflt, err |-> CONFREADER_ENOPARAM]}

\* C10: parsing a zero-length file succeeds with error kind OK; afterwards
\* hasSection is false for every name, find without a section yields
\* NoSuchParameter for every key, every typed getter returns its default,
\* and no query reads a row of a table that is not allocated.
C10_EmptyFileQueries ==
  (ret.op = "parseFile" /\ ret.env = "ok" /\ ret.file = <<>>)
  => /\ ret.val = <<CONFREADER_OK>>
     /\ errorNum = CONFREADER_OK
     /\ \A section \in SectionNames : HasSectionFrom(section, 1) = {0}
     /\ \A key \in Keys :
          /\ FindOutcomes(key, NoSection) = {NULL}
          /\ FindError(NULL) = CONFREADER_ENOPARAM
     /\ \A key \in TypedKeys, section \in Sections :
          /\ GetCharOutcomes(FindOutcomes(key, section)) = NotFound(<<DefaultChar>>)
          /\ GetStringOutcomes(FindOutcomes(key, section)) = NotFound(<<DefaultString>>)
          /\ GetIntOutcomes(FindOutcomes(key, section)) = NotFound(<<DefaultInt>>)
          /\ GetDoubleOutcomes(FindOutcomes(key, section)) = NotFound(DefaultDouble)
          /\ GetBoolOutcomes(FindOutcomes(key, section)) = NotFound(<<DefaultInt>>)
     /\ \A section \in Sections :
          (HasSectionReads \cup FindReads(section))
            \subseteq (IF sects.alloc THEN DOMAIN sects.mem ELSE {})

\* a parse of a zero-length file has just returned OK
C10_Witness ==
  /\ ParsedEmptyFile
  /\ errorNum = CONFREADER_OK
  /\ ~fileBuf.alloc

(* ------------------------------ C11 ----------------------------------- *)
\* lines 275-276, 328: the entries of the parameter table that the written
\* rows of the section table hold
LinkedParams ==
  UNION { LET row == sects.mem[k]
          IN IF row = UnwrittenSect \/ row.params = NULL THEN {}
             ELSE row.params..(row.params + row.size - 1) :
          k \in 0..(sectCount - 1) }

\* C11: in every successfully parsed document every linked parameter has a
\* key that is not the empty string and a value that is not null; no file
\* that parses successfully, a line beginning with '=' included, yields a
\* parameter with the empty string as its key.
C11_KeysNonEmpty ==
  fileBuf.alloc =>
    \A k \in LinkedParams :
      /\ params.mem[k].key >= 0
      /\ Str(params.mem[k].key) # <<>>
      /\ params.mem[k].value >= 0

(* ------------------------------ C12 ----------------------------------- *)
\* a line of the grammar, when a '#' or ';' inside a value is not required
\* to follow a space or tab
SpecLine(l) == SpecBlank(l) \/ SpecComment(l) \/ SpecHeader(l) \/ SpecParam(l)

AllSpecLines(f) == \A n \in 1..Len(f) : SpecLine(f[n])

\* the section argument that names the section line n of f belongs to
SectionArg(f, n) ==
  IF SectionOf(f, n) = 0 THEN NoSection ELSE SpecHeaderName(f[SectionOf(f, n)])

\* find, given the key and the section of parameter line n of f, returns
\* that line's text from after the separators that follow the key up to the
\* first '#' or ';' that follows a space or tab, or to the line end, without
\* trailing spaces and tabs
RoundTrip(f, n) ==
  \A r \in FindOutcomes(SpecKey(f[n]), SectionArg(f, n)) :
    r >= 0 /\ Str(r) = SpecValue(f[n])

\* C12 as stated: for any well-formed file and any parameter line
\* key sep+ value (ws+ comment)? of it, find(key, section) after parsing
\* returns exactly the line's text between the separators after the key and
\* the next whitespace-preceded comment mark or the line end, trimmed of
\* trailing spaces and tabs, interior bytes preserved.
C12_RoundTrip ==
  (/\ ret.op = "parseFile"
   /\ ret.env = "ok"
   /\ ret.file # <<>>
   /\ AllSpecLines(ret.file))
  => \A n \in 1..Len(ret.file) :
       SpecParam(ret.file[n]) => RoundTrip(ret.file, n)

\* line n of f is the first line a lookup of its key in its section can
\* return: the first of that key in the first section of that name
FirstOfKey(f, n) ==
  LET m == Matches(f, SpecKey(f[n]), SectionArg(f, n))
  IN n \in m /\ \A j \in m : n <= j

\* C12, amended: a file whose lines are all well formed, no value holding a
\* '#' or ';' that does not follow a space or tab, parses successfully; and
\* after a successful parse of a file of blank, comment, header and
\* parameter lines, find(key, section) returns the value text of the first
\* parameter line with that key in the first section of that name.
C12_RoundTripFirst ==
  /\ (ret.op = "parseFile" /\ ret.env = "ok" /\ ret.file # <<>>
        /\ AllWellFormed(ret.file))
     => ret.val = <<CONFREADER_OK>>
  /\ (fileBuf.alloc /\ AllSpecLines(src))
     => \A n \in 1..Len(src) :
          (SpecParam(src[n]) /\ FirstOfKey(src, n)) => RoundTrip(src, n)

\* a parsed file holds a parameter line whose value is followed by blanks
\* and a comment, and find returns the value without them
C12_Witness ==
  /\ fileBuf.alloc
  /\ AllSpecLines(src)
  /\ \E n \in 1..Len(src) :
       /\ SpecParam(src[n])
       /\ FirstOfKey(src, n)
       /\ SpacedMarks(SpecAfterSeps(src[n])) # {}
       /\ RoundTrip(src, n)

(* ------------------------------ C13 ----------------------------------- *)
\* the numbers of the parameter lines of f
ParamLines(f) == { n \in 1..Len(f) : SpecParam(f[n]) }

\* the parameter lines between header line h and the next header (h = 0:
\* before the first header)
SectionParams(f, h) == { n \in ParamLines(f) : SectionOf(f, n) = h }

\* the place of parameter line n among the parameter lines of f, from 0
ParamIndex(f, n) == Cardinality({ m \in ParamLines(f) : m < n })

\* the place of header line h among the header lines of f, from 1 (h = 0:
\* the row of the parameters before the first header)
SectIndex(f, h) == Cardinality({ g \in HeaderLines(f) : g <= h })

\* the entries of the parameter table a section row denotes
Slice(row) ==
  IF row.params = NULL THEN {} ELSE row.params..(row.params + row.size - 1)

\* C13: after a successful parse each section's (first parameter, size)
\* pair denotes exactly the parameter lines between that section's header
\* and the next header (row 0: before the first header), as one in-order
\* slice of the parameter table; every entry of the table lies in exactly
\* one slice, so the sizes sum to the number of parameter lines.
C13_SectionSlices ==
  (fileBuf.alloc /\ AllSpecLines(src)) =>
    /\ \A h \in HeaderLines(src) \cup {0} :
         LET row == sects.mem[SectIndex(src, h)]
             own == SectionParams(src, h)
         IN /\ row.size = Cardinality(own)
            /\ Slice(row) = { ParamIndex(src, n) : n \in own }
            /\ \A n \in own :
                 LET prm == params.mem[ParamIndex(src, n)]
                 IN /\ prm.key >= 0 /\ Str(prm.key) = SpecKey(src[n])
                    /\ prm.value >= 0 /\ Str(prm.value) = SpecValue(src[n])
    /\ DOMAIN params.mem = 0..(Cardinality(ParamLines(src)) - 1)
    /\ \A k \in DOMAIN params.mem :
         Cardinality({ j \in 0..(sectCount - 1) : k \in Slice(sects.mem[j]) }) = 1

(* ------------------------------ C15 ----------------------------------- *)
\* C15: every parse call that opens the file closes its descriptor before
\* it returns, on the success paths and on every failure path, so no
\* sequence of parse calls leaves a descriptor open.
C15_DescriptorsClosed == openFds = 0

(* ------------------------------ C14 ----------------------------------- *)
\* the bytes of the file of the last parse call
HasByte(f, c) == \E n \in 1..Len(f) : \E k \in 1..Len(f[n]) : f[n][k] = c

\* C14: for every input buffer, with embedded NUL bytes, CR LF endings or
\* no final newline, no access is out of bounds: pass 1 writes line offsets
\* at indices below the number of LF bytes counted (all of them when it
\* succeeds), pass 2 reads only offsets pass 1 wrote, its section index
\* stays below the section count and its parameter index below the
\* parameter count, and every buffer index read or written by either pass
\* is below the buffer's size.
C14_InBounds ==
  (ret.op = "parseFile" /\ ret.env = "ok" /\ ret.file # <<>>) =>
    LET a == Accesses(Join(ret.file))
    IN /\ a.pass1.lines \subseteq 0..(a.lineCount - 1)
       /\ a.split => a.pass1.lines = 0..(a.lineCount - 1)
       /\ a.pass2.lines \subseteq a.pass1.lines
       /\ a.pass2.sects \subseteq 0..(a.sectCount - 1)
       /\ a.pass2.params \subseteq 0..(a.paramCount - 1)
       /\ (a.pass1.buf \cup a.pass2.buf) \subseteq 0..(a.size - 1)

\* a file with a header, a line that ends in CR and no final newline was
\* parsed, and every row of the section table and the last byte of the
\* buffer were used
C14_Witness ==
  /\ ret.op = "parseFile" /\ ret.env = "ok" /\ ret.file # <<>>
  /\ ret.val = <<CONFREADER_OK>>
  /\ HasByte(ret.file, CR)
  /\ ret.file[Len(ret.file)] # <<>>
  /\ LET a == Accesses(Join(ret.file))
     IN /\ a.sectCount > 1
        /\ a.pass2.sects = 0..(a.sectCount - 1)
        /\ (a.size - 1) \in a.pass1.buf

====
